---------------------------- MODULE Spec2Model ----------------------------
(***************************************************************************)
(* A model of nlc_model.py: the pyramidal encoder's downscale, the         *)
(* attention softmax of GRUCellAttn, the shifted masked loss, and the      *)
(* session operations train / test / learning-rate decay.                  *)
(*                                                                         *)
(* Tensors are records [err, shape, data] with data the row-major          *)
(* flattening of the elements, which is how tf.reshape sees them.          *)
(* Floating-point activations are replaced by their provenance: the set    *)
(* of input positions <<t, b>> an element was computed from.               *)
(***************************************************************************)
EXTENDS Integers, Sequences, FiniteSets, TLC

VARIABLES
    batch_size,      \* self.batch_size
    inp,             \* downscale: the feature tensor handed to downscale
    mask,            \* downscale: the mask handed to downscale
    down,            \* downscale: what the call produced, NoCall before it
    num_layers,      \* self.num_layers
    source_mask,     \* the source_mask placeholder as fed
    encoder,         \* setup_encoder's graph evaluated on the feed, NotRun before
    target_tokens,   \* the target_tokens placeholder as fed
    target_mask,     \* the target_mask placeholder as fed
    loss,            \* setup_loss's graph evaluated on the feed, NoLoss before
    base,            \* what the forward pass on the first feed gave
    perturbed,       \* whether a padding token of the feed has been replaced
    forward_only,    \* the constructor's forward_only flag
    initial_rate,    \* the constructor's learning_rate, an exact fraction [num, den]
    learning_rate,   \* self.learning_rate, an exact fraction [num, den]
    learning_rate_decay_factor,   \* the constructor's decay factor, a fraction
    global_step,     \* self.global_step
    params,          \* tf.trainable_variables(): the updates applied so far
    calls,           \* history: completed train calls, decay calls, last call
    pre,             \* history: params, global_step, learning_rate before the last call
    scores,          \* GRUCellAttn.__call__: weights after the reduce_sum of line 51
    attn             \* GRUCellAttn.__call__: the softmax of the scores, NoAttn before

downVars == <<inp, mask, down>>
encVars == <<source_mask, encoder>>
lossVars == <<target_tokens, target_mask, loss, base, perturbed>>
stepVars == <<forward_only, initial_rate, learning_rate, learning_rate_decay_factor, global_step,
              params, calls, pre>>
attnVars == <<scores, attn>>
vars == <<batch_size, num_layers, downVars, encVars, lossVars, stepVars, attnVars>>

-----------------------------------------------------------------------------
(* Bounds of the model *)

MaxTime == 4
MaxBatch == 2
Size == 2
MaxSourceTime == 8
MaxLayers == 3
MaxTargetTime == 3
MaxDecoderLayers == 2
MaxFeedTime == 2
MaxTrain == 2
MaxDecay == 2
MaxEncoderTime == 2
MaxScore == 5
ExpBits == 8

\* the normalizer's epsilon is 1 / Mega
Mega == 1000000

\* token ids are 0 .. vocab_size - 1; large enough to give every position
\* of a target batch a token of its own
vocab_size == MaxTargetTime * MaxBatch + 1

-----------------------------------------------------------------------------
(* Tensors *)

ShapeError == [err |-> TRUE, shape |-> <<>>, data |-> <<>>]

Tensor(shape, data) == [err |-> FALSE, shape |-> shape, data |-> data]

RECURSIVE Prod(_)
Prod(s) == IF s = <<>> THEN 1 ELSE Head(s) * Prod(Tail(s))

RECURSIVE Pow2(_)
Pow2(n) == IF n = 0 THEN 1 ELSE 2 * Pow2(n - 1)

\* the product of the dimensions that are given (not -1)
KnownDims(shape) == Prod(SelectSeq(shape, LAMBDA d : d # -1))

\* a reshape that drops the elements that do not fill the new shape
ReshapeTruncating(x, shape) ==
    IF x.err \/ KnownDims(shape) = 0 THEN ShapeError
    ELSE LET n == Len(x.data) \div KnownDims(shape)
             s == [i \in 1..Len(shape) |-> IF shape[i] = -1 THEN n ELSE shape[i]]
         IN Tensor(s, SubSeq(x.data, 1, Prod(s)))

\* tf.reshape: the elements in row-major order under a new shape; one
\* dimension may be -1 and is inferred; an error when the element count
\* does not fit the shape
Reshape(x, shape) ==
    IF x.err \/ KnownDims(shape) = 0 THEN ShapeError
    ELSE LET known == KnownDims(shape)
             total == Len(x.data)
             s == [i \in 1..Len(shape) |->
                      IF shape[i] = -1 THEN total \div known ELSE shape[i]]
         IN IF total % known # 0
            THEN ShapeError
            ELSE Tensor(s, x.data)

\* tf.transpose of a matrix
Transpose(x) ==
    IF x.err THEN ShapeError
    ELSE LET R == x.shape[1]
             C == x.shape[2]
         IN Tensor(<<C, R>>,
                   [i \in 1..(R * C) |->
                       LET c == (i - 1) \div R
                           r == (i - 1) % R
                       IN x.data[r * C + c + 1]])

\* tf.transpose(x, perm=[1, 0, 2])
Transpose102(x) ==
    IF x.err THEN ShapeError
    ELSE LET A == x.shape[1]
             B == x.shape[2]
             K == x.shape[3]
         IN Tensor(<<B, A, K>>,
                   [i \in 1..(A * B * K) |->
                       LET k == (i - 1) % K
                           a == ((i - 1) \div K) % A
                           b == (i - 1) \div (K * A)
                       IN x.data[(a * B + b) * K + k + 1]])

\* tf.reduce_all in the place of tf.reduce_any
ReduceAll(x) ==
    IF x.err THEN ShapeError
    ELSE LET R == x.shape[1]
             C == x.shape[2]
         IN Tensor(<<R>>,
                   [r \in 1..R |-> \A c \in 1..C : x.data[(r - 1) * C + c]])

\* tf.reduce_any(x, reduction_indices=1) of a boolean matrix
ReduceAny(x) ==
    IF x.err THEN ShapeError
    ELSE LET R == x.shape[1]
             C == x.shape[2]
         IN Tensor(<<R>>,
                   [r \in 1..R |-> \E c \in 1..C : x.data[(r - 1) * C + c]])

\* rnn_cell.linear(x, n, True, 1.0) of a matrix: every output element of a
\* row is an affine function of all the elements of that row
Linear(x, n) ==
    IF x.err THEN ShapeError
    ELSE LET R == x.shape[1]
             C == x.shape[2]
         IN Tensor(<<R, n>>,
                   [i \in 1..(R * n) |->
                       LET r == (i - 1) \div n
                       IN UNION {x.data[r * C + c] : c \in 1..C}])

\* tanh, elementwise: an element depends on what its argument depended on
Tanh(x) ==
    IF x.err THEN ShapeError
    ELSE Tensor(x.shape, [i \in 1..Len(x.data) |-> x.data[i]])

\* tf.cast(x, tf.bool), elementwise
ToBool(x) ==
    IF x.err THEN ShapeError
    ELSE Tensor(x.shape, [i \in 1..Len(x.data) |-> x.data[i] # 0])

\* tf.to_int32 of a boolean tensor, elementwise
ToInt32(x) ==
    IF x.err THEN ShapeError
    ELSE Tensor(x.shape, [i \in 1..Len(x.data) |-> IF x.data[i] THEN 1 ELSE 0])

\* element (t, b) of a (T, B) tensor, element (t, b, k) of a (T, B, K) one
At2(x, t, b) == x.data[t * x.shape[2] + b + 1]

At3(x, t, b, k) == x.data[(t * x.shape[2] + b) * x.shape[3] + k + 1]

-----------------------------------------------------------------------------
(* NLCModel.downscale *)

\* downscale without its transposes: the rows of two are cut from the
\* time-major layout
DownscaleNoTranspose(B, i, m) ==
    [out  |-> Tanh(Reshape(Linear(Reshape(i, <<-1, 2 * Size>>), Size),
                           <<-1, B, Size>>)),
     mask |-> Reshape(ToInt32(ReduceAny(ToBool(Reshape(m, <<-1, 2>>)))), <<-1, B>>)]

Downscale(B, i, m) ==
    LET inp2d == Reshape(Transpose102(i), <<-1, 2 * Size>>)
        out2d == Linear(inp2d, Size)
        out3d == Transpose102(Reshape(out2d, <<B, -1, Size>>))
        m1 == Transpose(m)
        m2 == Reshape(m1, <<-1, 2>>)
        m3 == ToBool(m2)
        m4 == ReduceAny(m3)
        m5 == ToInt32(m4)
        m6 == Reshape(m5, <<B, -1>>)
    IN [out |-> Tanh(out3d), mask |-> Transpose(m6)]

-----------------------------------------------------------------------------
(* Inputs *)

\* a (T, B, Size) activation tensor whose element (t, b, k) is tagged with
\* the position it belongs to
Features(T, B) ==
    Tensor(<<T, B, Size>>,
           [i \in 1..(T * B * Size) |->
               {<<(i - 1) \div (B * Size), ((i - 1) \div Size) % B>>}])

Masks(T, B) == {Tensor(<<T, B>>, d) : d \in [1..(T * B) -> {0, 1}]}

NoCall == [called |-> FALSE, out |-> ShapeError, mask |-> ShapeError]

Called(r) == [called |-> TRUE, out |-> r.out, mask |-> r.mask]

\* the (T, B) mask of a padded batch whose example b has lens[b + 1] tokens
PrefixMask(T, B, lens) ==
    Tensor(<<T, B>>,
           [i \in 1..(T * B) |->
               IF (i - 1) \div B < lens[((i - 1) % B) + 1] THEN 1 ELSE 0])

PrefixMasks(T, B) == {PrefixMask(T, B, lens) : lens \in [1..B -> 0..T]}

-----------------------------------------------------------------------------
(* NLCModel.setup_encoder *)

RECURSIVE SumSeq(_)
SumSeq(s) == IF s = <<>> THEN 0 ELSE Head(s) + SumSeq(Tail(s))

\* tf.reduce_sum(x, reduction_indices=0) of a matrix
ReduceSum0(x) ==
    IF x.err THEN ShapeError
    ELSE LET R == x.shape[1]
             C == x.shape[2]
         IN Tensor(<<C>>,
                   [c \in 1..C |-> SumSeq([r \in 1..R |-> x.data[(r - 1) * C + c]])])

\* bidirectional_rnn: two dynamic_rnn passes over the (T, B, size) input,
\* summed; the output has the input's shape, and the recurrence mixes the
\* timesteps of one example only, so an output element is tagged with its
\* own position
BidirectionalRnn(x, lengths) ==
    IF x.err \/ lengths.err THEN ShapeError
    ELSE Features(x.shape[1], x.shape[2])

\* what the loop has bound when it ends: the layers it went through, and
\* the last bindings of out, inp and mask
\* EncoderOutputIsInp binds encoder_output to the downscaled inp instead
EncoderOutputIsInp(layers, out, i, m) ==
    [ran |-> TRUE, layers |-> layers, encoder_output |-> i, inp |-> i, mask |-> m]

EncoderResult(layers, out, i, m) ==
    [ran |-> TRUE, layers |-> layers, encoder_output |-> out, inp |-> i, mask |-> m]

\* the body of the loop over the layers, from layer i on; a tensor computed
\* from a failed one is failed too, so the encoder output is an error
\* exactly when a node it depends on raises
RECURSIVE EncoderLoop(_, _, _, _, _, _, _)
EncoderLoop(B, L, i, x, m, out, layers) ==
    IF i = L THEN EncoderResult(layers, out, x, m)
    ELSE LET srclen == ReduceSum0(m)
             o == BidirectionalRnn(x, srclen)
             d == Downscale(B, o, m)
         IN EncoderLoop(B, L, i + 1, d.out, d.mask, o,
                        Append(layers, [mask |-> m, srclen |-> srclen, out |-> o,
                                        down |-> d.mask]))

SetupEncoder(B, L, m) ==
    EncoderLoop(B, L, 0, Features(m.shape[1], B), m, ShapeError, <<>>)

NotRun ==
    [ran |-> FALSE, layers |-> <<>>, encoder_output |-> ShapeError,
     inp |-> ShapeError, mask |-> ShapeError]

-----------------------------------------------------------------------------
(* NLCModel.setup_embeddings, setup_decoder, setup_loss.  An activation is
   the set of the <<t, b, token>> it was computed from; EncoderTag(b) stands
   for the encoder output of example b. *)

EncoderTag(b) == <<-1, b, 0>>

\* embedding_lookup(L_dec, target_tokens): (T, B) token ids to (T, B, size)
EmbeddingLookup(tokens) ==
    IF tokens.err \/ \E i \in 1..Len(tokens.data) : tokens.data[i] \notin 0..(vocab_size - 1)
    THEN ShapeError
    ELSE LET T == tokens.shape[1]
             B == tokens.shape[2]
         IN Tensor(<<T, B, Size>>,
                   [i \in 1..(T * B * Size) |->
                       LET t == (i - 1) \div (B * Size)
                           b == ((i - 1) \div Size) % B
                       IN {<<t, b, At2(tokens, t, b)>>}])

\* what the cell has consumed of example b after the steps 0..t
Consumed(x, t, b) ==
    UNION {At3(x, u, b, k) : u \in 0..t, k \in 0..(x.shape[3] - 1)}

\* rnn.dynamic_rnn(cell, x, time_major=True, sequence_length=lengths): the
\* output of example b at step t < lengths[b] is computed from its inputs
\* at the steps 0..t; from step lengths[b] on the output is zero
DynamicRnn(x, lengths) ==
    IF x.err \/ lengths.err THEN ShapeError
    ELSE LET T == x.shape[1]
             B == x.shape[2]
             K == x.shape[3]
         IN Tensor(<<T, B, K>>,
                   [i \in 1..(T * B * K) |->
                       LET t == (i - 1) \div (B * K)
                           b == ((i - 1) \div K) % B
                       IN IF t < lengths.data[b + 1] THEN Consumed(x, t, b) ELSE {}])

\* dynamic_rnn with the GRUCellAttn cell: a live output also reads the
\* encoder output of its own example (the softmax runs over axis 0, time)
DynamicRnnAttn(x, lengths) ==
    IF x.err \/ lengths.err THEN ShapeError
    ELSE LET T == x.shape[1]
             B == x.shape[2]
             K == x.shape[3]
         IN Tensor(<<T, B, K>>,
                   [i \in 1..(T * B * K) |->
                       LET t == (i - 1) \div (B * K)
                           b == ((i - 1) \div K) % B
                       IN IF t < lengths.data[b + 1]
                          THEN Consumed(x, t, b) \cup {EncoderTag(b)}
                          ELSE {}])

\* the num_layers - 1 plain layers of the decoder
RECURSIVE DecoderCells(_, _, _)
DecoderCells(n, x, lengths) ==
    IF n = 0 THEN x ELSE DecoderCells(n - 1, DynamicRnn(x, lengths), lengths)

SetupDecoder(L, tokens, m) ==
    LET target_length == ReduceSum0(m)
        decoder_inputs == EmbeddingLookup(tokens)
    IN DynamicRnnAttn(DecoderCells(L - 1, decoder_inputs, target_length), target_length)

\* tf.slice(x, [1, 0], [-1, -1]) of a matrix: all rows but the first
SliceNoGO(x) ==
    IF x.err \/ x.shape[1] < 1 THEN ShapeError
    ELSE Tensor(<<x.shape[1] - 1, x.shape[2]>>,
                SubSeq(x.data, x.shape[2] + 1, Len(x.data)))

\* tf.pad(x, [[0, 1], [0, 0]]) of a matrix: one row of zeros after the last
PadRow(x) ==
    IF x.err THEN ShapeError
    ELSE Tensor(<<x.shape[1] + 1, x.shape[2]>>,
                x.data \o [i \in 1..x.shape[2] |-> 0])

\* labels and mask flattened without dropping row 0
Labels1dUnshifted(tokens) == Reshape(tokens, <<-1>>)

Mask1dUnshifted(m) == Reshape(m, <<-1>>)

\* labels1d and mask1d: row 0 dropped, a zero row appended, flattened
Labels1d(tokens) == Reshape(PadRow(SliceNoGO(tokens)), <<-1>>)

Mask1d(m) == Reshape(PadRow(SliceNoGO(m)), <<-1>>)

\* a per-token loss that is exactly zero
Zero == [zero |-> TRUE, logits |-> {}, label |-> 0]

\* tf.nn.sparse_softmax_cross_entropy_with_logits(logits2d, labels1d): the
\* loss of row r is a function of the logits of row r and of label r
SparseSoftmaxXent(logits2d, labels1d) ==
    IF logits2d.err \/ labels1d.err THEN ShapeError
    ELSE IF logits2d.shape[1] # labels1d.shape[1] THEN ShapeError
    ELSE LET N == logits2d.shape[1]
             V == logits2d.shape[2]
         IN Tensor(<<N>>,
                   [r \in 1..N |->
                       [zero   |-> FALSE,
                        logits |-> UNION {logits2d.data[(r - 1) * V + c] : c \in 1..V},
                        label  |-> labels1d.data[r]]])

\* xent * tf.to_float(mask1d) with a mask of zeros and ones
TimesMask(xent, mask1d) ==
    IF xent.err \/ mask1d.err THEN ShapeError
    ELSE IF xent.shape # mask1d.shape THEN ShapeError
    ELSE Tensor(xent.shape,
                [r \in 1..Len(xent.data) |->
                    IF mask1d.data[r] = 0 THEN Zero ELSE xent.data[r]])

\* tf.reduce_sum(losses2d) / batch_size: a function of the summands that
\* are not zero, in their order
SumLosses(losses2d) ==
    IF losses2d.err THEN ShapeError
    ELSE Tensor(<<>>, SelectSeq(losses2d.data, LAMBDA x : ~x.zero))

SetupLoss(B, decoder_output, tokens, m) ==
    LET do2d == Reshape(decoder_output, <<-1, Size>>)
        logits2d == Linear(do2d, vocab_size)
        labels1d == Labels1d(tokens)
        mask1d == Mask1d(m)
        losses1d == TimesMask(SparseSoftmaxXent(logits2d, labels1d), mask1d)
        losses2d == Reshape(losses1d, <<-1, B>>)
    \* outputs: the softmax of a row reads the logits of that row
    IN [ran |-> TRUE,
        decoder_output |-> decoder_output,
        outputs |-> Reshape(logits2d, <<-1, B, vocab_size>>),
        labels1d |-> labels1d,
        mask1d |-> mask1d,
        losses2d |-> losses2d,
        losses |-> SumLosses(losses2d)]

\* the forward pass from the target placeholders to self.losses
Forward(B, L, tokens, m) == SetupLoss(B, SetupDecoder(L, tokens, m), tokens, m)

NoLoss ==
    [ran |-> FALSE, decoder_output |-> ShapeError, outputs |-> ShapeError,
     labels1d |-> ShapeError, mask1d |-> ShapeError, losses2d |-> ShapeError,
     losses |-> ShapeError]

\* a (T, B) target batch in which every position has its own token id
DistinctTokens(T, B) == Tensor(<<T, B>>, [i \in 1..(T * B) |-> i])

LossIdle ==
    /\ target_tokens = ShapeError
    /\ target_mask = ShapeError
    /\ loss = NoLoss
    /\ base = NoLoss
    /\ perturbed = FALSE

-----------------------------------------------------------------------------
(* NLCModel.__init__, train, test and the decay op: the nodes of the graph,
   what each reads, and what running the stateful ones does *)

\* the nodes a node is computed from
Inputs(op) ==
    CASE op = "losses" -> {"params", "placeholders"}
      [] op = "outputs" -> {"params", "placeholders"}
      [] op = "gradients" -> {"losses", "params"}
      [] op = "clipped_gradients" -> {"gradients"}
      [] op = "gradient_norm" -> {"clipped_gradients"}
      [] op = "param_norm" -> {"params"}
      [] op = "updates" -> {"clipped_gradients", "params", "learning_rate", "global_step"}
      [] op = "learning_rate_decay_op" -> {"learning_rate"}
      [] OTHER -> {}

\* session.run runs the fetched nodes and all they are computed from
RECURSIVE Closure(_)
Closure(ops) ==
    LET more == ops \cup UNION {Inputs(op) : op \in ops}
    IN IF more = ops THEN ops ELSE Closure(more)

RatMul(a, b) == [num |-> a.num * b.num, den |-> a.den * b.den]

\* a decay that subtracts the factor
DecayBySubtraction(rate, factor) ==
    [num |-> rate.num * factor.den - factor.num * rate.den, den |-> rate.den * factor.den]

\* learning_rate.assign(learning_rate * learning_rate_decay_factor)
DecayedRate(rate, factor) == RatMul(rate, factor)

\* a source batch of time T, all of it valid: whether the forward pass
\* raises on it
ForwardRaises(B, L, T) ==
    SetupEncoder(B, L, PrefixMask(T, B, [b \in 1..B |-> T])).encoder_output.err

\* output feeds with the apply_gradients node added, and left out
TestFetchesWithUpdates == {"updates", "losses", "outputs"}

TrainFetchesWithoutUpdates == {"gradient_norm", "losses", "param_norm"}

\* output_feed of train and of test
TrainFetches == {"updates", "gradient_norm", "losses", "param_norm"}

TestFetches == {"losses", "outputs"}

\* session.run(fetches, feed) on a source batch of time T: when no node
\* raises, the apply_gradients node changes the parameters and adds one to
\* global_step, and the decay node assigns the learning rate
SessionRun(fetches, T, call) ==
    LET ops == Closure(fetches)
        raises == /\ ops \cap {"losses", "outputs"} # {}
                  /\ ForwardRaises(batch_size, num_layers, T)
        applied == ~raises /\ "updates" \in ops
        decayed == ~raises /\ "learning_rate_decay_op" \in ops
    IN /\ params' = IF applied THEN Append(params, <<T, learning_rate>>) ELSE params
       /\ global_step' = IF applied THEN global_step + 1 ELSE global_step
       /\ learning_rate' = IF decayed
                            THEN DecayedRate(learning_rate, learning_rate_decay_factor)
                            ELSE learning_rate
       /\ calls' = [train |-> IF call = "train" /\ ~raises
                              THEN calls.train + 1 ELSE calls.train,
                    decay |-> IF call = "decay" /\ ~raises
                              THEN calls.decay + 1 ELSE calls.decay,
                    last  |-> call,
                    raised |-> raises]
       /\ pre' = <<params, global_step, learning_rate>>

InitialRates == {[num |-> 1, den |-> 10], [num |-> 1, den |-> 2]}

DecayFactors == {[num |-> 1, den |-> 2], [num |-> 9, den |-> 10]}

NoCalls == [train |-> 0, decay |-> 0, last |-> "none", raised |-> FALSE]

StepIdle ==
    /\ forward_only = TRUE
    /\ initial_rate = [num |-> 1, den |-> 10]
    /\ learning_rate = [num |-> 1, den |-> 10]
    /\ learning_rate_decay_factor = [num |-> 1, den |-> 2]
    /\ global_step = 0
    /\ params = <<>>
    /\ calls = NoCalls
    /\ pre = <<<<>>, 0, [num |-> 1, den |-> 10]>>

-----------------------------------------------------------------------------
(* GRUCellAttn.__call__, lines 52-53: the softmax over encoder time.  A
   score is a whole number of units of ln 2, an exponential is a multiple
   of 2^-ExpBits (rounded down, so that a small one underflows to zero),
   and a weight is an exact fraction. *)

ExpOne == Pow2(ExpBits)

\* tf.exp(x) for x <= 0
Exp(x) == ExpOne \div Pow2(-x)

RECURSIVE MaxSeq(_)
MaxSeq(q) ==
    IF Len(q) = 1 THEN q[1]
    ELSE LET m == MaxSeq(Tail(q)) IN IF q[1] > m THEN q[1] ELSE m

\* tf.reduce_max(x, reduction_indices=1, keep_dims=True) of a (T, B, 1)
\* tensor: the largest score of a timestep, over the examples
ReduceMax1(x) ==
    LET T == x.shape[1]
        B == x.shape[2]
    IN Tensor(<<T, 1, 1>>, [t \in 1..T |-> MaxSeq([b \in 1..B |-> x.data[(t - 1) * B + b]])])

MaxOverBatch(x, t, b) == ReduceMax1(x).data[t + 1]

\* tf.reduce_max(x, reduction_indices=0, keep_dims=True) of a (T, B, 1)
\* tensor: the largest score of an example, over encoder time
ReduceMax0(x) ==
    LET T == x.shape[1]
        B == x.shape[2]
    IN Tensor(<<1, B, 1>>, [b \in 1..B |-> MaxSeq([t \in 1..T |-> x.data[(t - 1) * B + b]])])

\* the maximum that is subtracted from element (t, b), by broadcasting
MaxOverTime(x, t, b) == ReduceMax0(x).data[b + 1]

\* weights = tf.exp(weights - tf.reduce_max(weights, 0, keep_dims=True))
ExpShifted(x) ==
    Tensor(x.shape,
           [i \in 1..Len(x.data) |->
               LET t == (i - 1) \div x.shape[2]
                   b == (i - 1) % x.shape[2]
               IN Exp(x.data[i] - MaxOverTime(x, t, b))])

\* 1e-6 + tf.reduce_sum(weights, 0, keep_dims=True), in units of
\* 1 / (ExpOne * Mega)
Normalizer(e) ==
    LET s == ReduceSum0(Tensor(<<e.shape[1], e.shape[2]>>, e.data))
    IN Tensor(<<1, e.shape[2], 1>>, [b \in 1..e.shape[2] |-> ExpOne + s.data[b] * Mega])

\* weights = weights / (1e-6 + reduce_sum(weights, 0)), each a fraction
Softmax(x) ==
    LET e == ExpShifted(x)
        d == Normalizer(e)
    IN [ran |-> TRUE,
        exps |-> e,
        normalizer |-> d,
        weights |-> Tensor(x.shape,
                           [i \in 1..Len(x.data) |->
                               [num |-> e.data[i] * Mega,
                                den |-> d.data[((i - 1) % x.shape[2]) + 1]]])]

NoAttn ==
    [ran |-> FALSE, exps |-> ShapeError, normalizer |-> ShapeError, weights |-> ShapeError]

AttnIdle ==
    /\ scores = ShapeError
    /\ attn = NoAttn

-----------------------------------------------------------------------------
(* The downscale call on its own *)

DownIdle ==
    /\ inp = ShapeError
    /\ mask = ShapeError
    /\ down = NoCall

EncIdle ==
    /\ source_mask = ShapeError
    /\ encoder = NotRun

InitDownscale ==
    /\ AttnIdle
    /\ StepIdle
    /\ EncIdle
    /\ LossIdle
    /\ num_layers = 1
    /\ batch_size \in 1..MaxBatch
    /\ \E T \in 1..MaxTime :
          /\ inp = Features(T, batch_size)
          /\ mask \in Masks(T, batch_size)
    /\ down = NoCall

CallDownscale ==
    /\ ~down.called
    /\ down' = Called(Downscale(batch_size, inp, mask))
    /\ UNCHANGED <<batch_size, num_layers, inp, mask, encVars, lossVars, stepVars, attnVars>>

SpecDownscale == InitDownscale /\ [][CallDownscale]_vars

Time(x) == x.shape[1]

\* the examples (batch indices) an activation was computed from
Examples(v) == {p[2] : p \in v}

(* C1: for a binary mask of shape (T, batch_size) with T even, downscale
   returns a mask of shape (T/2, batch_size) whose entry (j, b) is 1 iff
   the input mask is 1 at (2j, b) or at (2j+1, b). *)
C1_DownscaleMaskIsPairwiseOr ==
    (down.called /\ Time(mask) % 2 = 0) =>
        /\ ~down.mask.err
        /\ down.mask.shape = <<Time(mask) \div 2, batch_size>>
        /\ Len(down.mask.data) = (Time(mask) \div 2) * batch_size
        /\ \A j \in 0..(Time(mask) \div 2 - 1), b \in 0..(batch_size - 1) :
              /\ At2(down.mask, j, b) \in {0, 1}
              /\ At2(down.mask, j, b) = 1 <=>
                    (At2(mask, 2 * j, b) = 1 \/ At2(mask, 2 * j + 1, b) = 1)

\* a batch of two examples, four timesteps, where the OR of a pair and the
\* OR across examples differ
C1_Witness ==
    /\ down.called
    /\ batch_size = 2
    /\ mask = Tensor(<<4, 2>>, <<1, 0, 1, 0, 0, 0, 0, 1>>)
    /\ down.mask = Tensor(<<2, 2>>, <<1, 0, 0, 1>>)

(* C10: for every batch_size >= 1 and every odd input time T, downscale
   produces no output, neither features nor mask: a reshape fails; and no
   downscale that does produce features pools timesteps of two examples. *)
C10_OddTimeFails ==
    down.called =>
        /\ Time(mask) % 2 = 1 => (down.out.err /\ down.mask.err)
        /\ ~down.out.err =>
              \A i \in 1..Len(down.out.data) :
                  Cardinality(Examples(down.out.data[i])) = 1

\* odd time and an even batch: the reshape to rows of two succeeds, with a
\* row that spans two examples, and the reshape back is the one that fails
C10_Witness ==
    /\ down.called
    /\ Time(mask) = 3
    /\ batch_size = 2
    /\ ~Reshape(Transpose(mask), <<-1, 2>>).err
    /\ \E i \in 1..3 :
          Cardinality(Examples(
              Linear(Reshape(Transpose102(inp), <<-1, 2 * Size>>), Size).data[i * Size])) = 2
    /\ down.out.err
    /\ down.mask.err


-----------------------------------------------------------------------------
(* The encoder evaluated on a fed source mask *)

InitEncoder ==
    /\ AttnIdle
    /\ StepIdle
    /\ DownIdle
    /\ LossIdle
    /\ batch_size \in 1..MaxBatch
    /\ num_layers \in 1..MaxLayers
    /\ \E T \in 1..MaxSourceTime : source_mask \in PrefixMasks(T, batch_size)
    /\ encoder = NotRun

RunEncoder ==
    /\ ~encoder.ran
    /\ encoder' = SetupEncoder(batch_size, num_layers, source_mask)
    /\ UNCHANGED <<batch_size, num_layers, source_mask, downVars, lossVars, stepVars, attnVars>>

SpecEncoder == InitEncoder /\ [][RunEncoder]_vars

Ceil(n, d) == (n + d - 1) \div d

\* m is a (T, B) mask whose every column is lens[b] ones followed by zeros
IsPrefixMask(m, lens) ==
    /\ ~m.err
    /\ Len(m.shape) = 2
    /\ Len(lens) = m.shape[2]
    /\ \A t \in 0..(m.shape[1] - 1), b \in 0..(m.shape[2] - 1) :
          At2(m, t, b) = IF t < lens[b + 1] THEN 1 ELSE 0

\* the valid length of every example of the fed source mask
SourceLens == ReduceSum0(source_mask).data

(* C2: downscale keeps a prefix-of-ones mask a prefix-of-ones mask: from an
   input mask of even time whose columns have n ones it gives columns of
   ceil(n/2) ones; so the length layer i of the encoder runs with is
   ceil(n / 2^i). *)
C2_PrefixMaskPreserved ==
    encoder.ran =>
        \A i \in 1..Len(encoder.layers) :
            LET layer == encoder.layers[i]
            IN /\ ~layer.out.err =>
                     /\ IsPrefixMask(layer.mask, layer.srclen.data)
                     /\ layer.srclen.data =
                            [b \in 1..batch_size |-> Ceil(SourceLens[b], Pow2(i - 1))]
               /\ (~layer.mask.err /\ Time(layer.mask) % 2 = 0) =>
                     IsPrefixMask(layer.down,
                                  [b \in 1..batch_size |->
                                      Ceil(layer.srclen.data[b], 2)])

\* a length-4 padded batch with an example of length 2 and one of length 4:
\* after one downscale the lengths are 1 and 2
C2_Witness ==
    /\ encoder.ran
    /\ num_layers >= 2
    /\ source_mask = PrefixMask(4, 2, <<2, 4>>)
    /\ encoder.layers[1].down = PrefixMask(2, 2, <<1, 2>>)
    /\ encoder.layers[2].srclen.data = <<1, 2>>

(* C8: the encoder output is the hidden sequence of the last layer: for a
   source time T divisible by 2^num_layers its shape is
   (T / 2^(num_layers-1), batch_size, size); the downscale after the last
   layer is not part of it. *)
C8_EncoderOutputShape ==
    (encoder.ran /\ Time(source_mask) % Pow2(num_layers) = 0) =>
        /\ ~encoder.encoder_output.err
        /\ encoder.encoder_output.shape =
              <<Time(source_mask) \div Pow2(num_layers - 1), batch_size, Size>>
        /\ encoder.encoder_output = encoder.layers[num_layers].out
        /\ Time(encoder.inp) = Time(source_mask) \div Pow2(num_layers)

\* one layer, two examples, four fully valid timesteps: (4, 2, size)
C8_Witness ==
    /\ encoder.ran
    /\ num_layers = 1
    /\ source_mask = PrefixMask(4, 2, <<4, 4>>)
    /\ encoder.encoder_output.shape = <<4, 2, Size>>
    /\ encoder.inp.shape = <<2, 2, Size>>

-----------------------------------------------------------------------------
(* The loss of a fed target batch, and of the batch with one padding token
   replaced *)

InitLoss ==
    /\ AttnIdle
    /\ StepIdle
    /\ DownIdle
    /\ EncIdle
    /\ batch_size \in 1..MaxBatch
    /\ num_layers \in 1..MaxDecoderLayers
    /\ \E T \in 1..MaxTargetTime :
          /\ target_tokens = DistinctTokens(T, batch_size)
          /\ target_mask \in PrefixMasks(T, batch_size)
    /\ loss = NoLoss
    /\ base = NoLoss
    /\ perturbed = FALSE

\* session.run of self.losses on the current feed
RunLoss ==
    /\ ~loss.ran
    /\ loss' = Forward(batch_size, num_layers, target_tokens, target_mask)
    /\ base' = IF base.ran THEN base ELSE loss'
    /\ UNCHANGED <<batch_size, num_layers, target_tokens, target_mask, perturbed,
                   downVars, encVars, stepVars, attnVars>>

\* the caller replaces the token of one masked position by any token id
Perturb ==
    /\ loss.ran
    /\ ~perturbed
    /\ \E i \in 1..Len(target_tokens.data), v \in 0..(vocab_size - 1) :
          /\ target_mask.data[i] = 0
          /\ v # target_tokens.data[i]
          /\ target_tokens' = [target_tokens EXCEPT !.data[i] = v]
    /\ perturbed' = TRUE
    /\ loss' = NoLoss
    /\ UNCHANGED <<batch_size, num_layers, target_mask, base, downVars, encVars,
                   stepVars, attnVars>>

SpecLoss == InitLoss /\ [][RunLoss \/ Perturb]_vars

(* C3: with a prefix-of-ones target mask, replacing the token of a masked
   position by any token leaves the total loss unchanged, through the labels
   and through the decoder inputs alike. *)
C3_MaskedTokenDoesNotChangeLoss ==
    (loss.ran /\ perturbed) =>
        /\ ~loss.losses.err
        /\ loss.losses = base.losses
        /\ loss.losses2d = base.losses2d

\* a replaced padding token, in a batch that has live loss terms, after the
\* second forward pass; the replaced token did reach the label vector
C3_Witness ==
    /\ loss.ran
    /\ perturbed
    /\ num_layers = 2
    /\ loss.losses.data # <<>>
    /\ loss.labels1d # base.labels1d

\* the per-token loss of decoder output position (t, b)
LossAt(t, b) == At2(loss.losses2d, t, b)

(* C9: the loss pairs decoder output position t with target position t+1:
   for t < T-1 the loss at (t, b) has label target_tokens[t+1, b] and weight
   target_mask[t+1, b]; at t = T-1 the weight is 0; row 0 is never a label;
   an example of n >= 1 valid target positions contributes exactly the n-1
   positions below n-1, where the decoder output is live. *)
C9_LossAlignsOutputWithNextTarget ==
    loss.ran =>
        LET T == Time(target_tokens)
            n == ReduceSum0(target_mask).data
        IN /\ loss.losses2d.shape = <<T, batch_size>>
           /\ \A b \in 0..(batch_size - 1) :
                 /\ \A t \in 0..(T - 2) :
                       /\ loss.labels1d.data[t * batch_size + b + 1]
                             = At2(target_tokens, t + 1, b)
                       /\ loss.mask1d.data[t * batch_size + b + 1]
                             = At2(target_mask, t + 1, b)
                       /\ LossAt(t, b).zero <=> At2(target_mask, t + 1, b) = 0
                       /\ ~LossAt(t, b).zero =>
                             /\ LossAt(t, b).label = At2(target_tokens, t + 1, b)
                             /\ LossAt(t, b).logits = At3(loss.decoder_output, t, b, 0)
                 /\ loss.mask1d.data[(T - 1) * batch_size + b + 1] = 0
                 /\ LossAt(T - 1, b).zero
                 /\ ~perturbed =>
                       \A r \in 1..Len(loss.labels1d.data) :
                           loss.labels1d.data[r] # At2(target_tokens, 0, b)
                 /\ n[b + 1] >= 1 =>
                       /\ {t \in 0..(T - 1) : ~LossAt(t, b).zero} = 0..(n[b + 1] - 2)
                       /\ \A t \in 0..(n[b + 1] - 2) :
                             /\ t < n[b + 1]
                             /\ At3(loss.decoder_output, t, b, 0) # {}

\* two examples of lengths 3 and 2 in a batch of three timesteps: two
\* positions of the first and one of the second carry loss
C9_Witness ==
    /\ loss.ran
    /\ ~perturbed
    /\ target_mask = PrefixMask(3, 2, <<3, 2>>)
    /\ ~LossAt(0, 0).zero /\ ~LossAt(1, 0).zero /\ LossAt(2, 0).zero
    /\ ~LossAt(0, 1).zero /\ LossAt(1, 1).zero
    /\ LossAt(1, 0).label = At2(target_tokens, 2, 0)

-----------------------------------------------------------------------------
(* A constructed model and the calls made on it *)

InitSteps ==
    /\ AttnIdle
    /\ DownIdle
    /\ EncIdle
    /\ LossIdle
    /\ batch_size = MaxBatch
    /\ num_layers \in 1..MaxLayers
    /\ forward_only \in BOOLEAN
    /\ initial_rate \in InitialRates
    /\ learning_rate = initial_rate
    /\ learning_rate_decay_factor \in DecayFactors
    /\ global_step = 0
    /\ params = <<>>
    /\ calls = NoCalls
    /\ pre = <<params, global_step, learning_rate>>

stepFrame == <<batch_size, num_layers, forward_only, initial_rate,
               learning_rate_decay_factor,
               downVars, encVars, lossVars, attnVars>>

\* NLCModel.train: a model built with forward_only has no self.updates and
\* the call raises before anything is run
Train ==
    /\ global_step < MaxTrain
    /\ \E T \in 1..MaxFeedTime :
          IF forward_only
          THEN /\ calls' = [calls EXCEPT !.last = "train", !.raised = TRUE]
               /\ pre' = <<params, global_step, learning_rate>>
               /\ UNCHANGED <<params, global_step, learning_rate>>
          ELSE SessionRun(TrainFetches, T, "train")
    /\ UNCHANGED stepFrame

\* NLCModel.test
Test ==
    /\ \E T \in 1..MaxFeedTime : SessionRun(TestFetches, T, "test")
    /\ UNCHANGED stepFrame

\* session.run(model.learning_rate_decay_op), made by the caller
Decay ==
    /\ calls.decay < MaxDecay
    /\ SessionRun({"learning_rate_decay_op"}, 1, "decay")
    /\ UNCHANGED stepFrame

SpecSteps == InitSteps /\ [][Train \/ Test \/ Decay]_vars

(* C4: a test call runs the forward pass only: after it the trainable
   parameters, global_step and learning_rate are what they were before it,
   whatever calls came before. *)
C4_TestChangesNothing ==
    calls.last = "test" => <<params, global_step, learning_rate>> = pre

\* a test call made after the parameters, the step and the rate have moved
C4_Witness ==
    /\ calls.last = "test"
    /\ ~calls.raised
    /\ calls.train >= 1
    /\ calls.decay >= 1
    /\ Len(params) >= 1

(* C5: global_step starts at 0, is increased by one by every completed
   train call and changed by nothing else: on a model built with
   forward_only false it equals the number of completed train calls, and
   it never decreases. *)
C5_GlobalStepCountsTrainCalls ==
    /\ global_step = calls.train
    /\ global_step >= pre[2]
    /\ calls.last = "none" => global_step = 0
    /\ (calls.last = "train" /\ ~calls.raised) => global_step = pre[2] + 1
    /\ (calls.last # "train" \/ calls.raised) => global_step = pre[2]

\* a completed train call, a decay, and then a train call that raised in
\* its forward pass
C5_Witness ==
    /\ ~forward_only
    /\ global_step = 1
    /\ calls.train = 1
    /\ calls.decay >= 1
    /\ calls.last = "train"
    /\ calls.raised

RECURSIVE RatPow(_, _)
RatPow(a, n) == IF n = 0 THEN [num |-> 1, den |-> 1] ELSE RatMul(a, RatPow(a, n - 1))

RatEq(a, b) == a.num * b.den = b.num * a.den

(* C6: only the decay operation changes the learning rate: after n decay
   calls among any train and test calls it is initial_rate * decay_factor^n
   (0.1 and 0.5 give 0.05 after one decay); train and test leave it as it
   was. *)
C6_RateIsInitialTimesFactorPower ==
    /\ RatEq(learning_rate,
             RatMul(initial_rate, RatPow(learning_rate_decay_factor, calls.decay)))
    /\ calls.last \in {"train", "test"} => learning_rate = pre[3]
    /\ (/\ initial_rate = [num |-> 1, den |-> 10]
        /\ learning_rate_decay_factor = [num |-> 1, den |-> 2]
        /\ calls.decay = 1) => RatEq(learning_rate, [num |-> 5, den |-> 100])

\* rate 0.1, factor 0.5, two decays with a completed train call after them
C6_Witness ==
    /\ initial_rate = [num |-> 1, den |-> 10]
    /\ learning_rate_decay_factor = [num |-> 1, den |-> 2]
    /\ calls.decay = 2
    /\ calls.last = "train"
    /\ ~calls.raised
    /\ RatEq(learning_rate, [num |-> 25, den |-> 1000])

-----------------------------------------------------------------------------
(* One step of the attention cell *)

Scores == {-MaxScore, 0, MaxScore}

InitAttention ==
    /\ DownIdle
    /\ EncIdle
    /\ LossIdle
    /\ StepIdle
    /\ batch_size \in 1..MaxBatch
    /\ num_layers = 1
    /\ \E T \in 1..MaxEncoderTime :
          scores \in {Tensor(<<T, batch_size, 1>>, d) :
                         d \in [1..(T * batch_size) -> Scores]}
    /\ attn = NoAttn

Attend ==
    /\ ~attn.ran
    /\ attn' = Softmax(scores)
    /\ UNCHANGED <<batch_size, num_layers, scores, downVars, encVars, lossVars, stepVars>>

SpecAttention == InitAttention /\ [][Attend]_vars

\* the numerators of the weights of example b, summed over encoder time
WeightSum(b) ==
    SumSeq([t \in 1..scores.shape[1] |-> At3(attn.weights, t - 1, b, 0).num])

(* C7: the attention weights of every example sum to 1 over encoder time
   within the tolerance the epsilon sets: every weight is in [0, 1], the
   normalizer is at least 1, and the sum s satisfies 1/(1+1e-6) <= s <= 1,
   stated as 0 <= 1 - s <= 1e-6/(1+1e-6). *)
C7_AttentionWeightsSumToOne ==
    attn.ran =>
        \A b \in 0..(batch_size - 1) :
            LET D == attn.normalizer.data[b + 1]
            IN /\ D >= ExpOne * Mega
               /\ \A t \in 0..(scores.shape[1] - 1) :
                     LET w == At3(attn.weights, t, b, 0)
                     IN /\ w.den = D
                        /\ 0 <= w.num
                        /\ w.num <= w.den
               /\ WeightSum(b) <= D
               /\ (D - WeightSum(b)) * (Mega + 1) <= D

\* two examples, two encoder timesteps; the second example's scores are
\* not above the first's at any timestep, and its smaller exponential
\* underflows to zero
C7_Witness ==
    /\ attn.ran
    /\ scores = Tensor(<<2, 2, 1>>, <<MaxScore, MaxScore, 0, -MaxScore>>)
    /\ At3(attn.weights, 1, 0, 0).num > 0
    /\ At3(attn.weights, 1, 0, 0).num < At3(attn.weights, 0, 0, 0).num
    /\ At3(attn.weights, 1, 1, 0).num = 0

=============================================================================
